---- MODULE Spec2Model ----
(***************************************************************************)
(* Trinity: the per-document term-position tracker (DocWordsSpace,         *)
(* docwordspace.h) and the fan-out query drivers (exec_query over a        *)
(* collection and exec_query_par, exec.h).                                 *)
(***************************************************************************)
EXTENDS Integers, Sequences, FiniteSets, TLC

\* ------------------------------------------------------------------------
\* Sizes
\* ------------------------------------------------------------------------

\* uint16_t docSeq / curSeq: the largest generation value.
UINT16_MAX == 65535

\* Stands for Trinity::Limits::MaxPosition (defined outside these files).
MaxPosition == 2

\* Stands for Trinity::Limits::MaxPhraseSize (defined outside these files).
MaxPhraseSize == 2

\* Term ids used by the callers of set/test: 0 .. MaxTermID.
MaxTermID == 1

\* reset() is called one at a time while curSeq < MaxLowSeq or while curSeq is
\* among the last HighGens generations before the overflow; in between the
\* caller runs BurstLen resets back to back.
MaxLowSeq == 2

HighGens == 1

\* How many times the generation counter may overflow in a run.
MaxWraps == 1

\* How many candidate first-token positions a test_phrase call is given.
MaxCands == 2

\* The largest number of index sources in the collection.
MaxSources == 3

\* Documents per index source.
MaxDocs == 3

BurstLen == UINT16_MAX - HighGens

Terms == 0..MaxTermID

VARIABLES
    alive,      \* TRUE iff the constructor's require() passed
    maxPos,     \* DocWordsSpace::maxPos
    positions,  \* DocWordsSpace::positions, offset -> [docSeq, termID]
    curSeq,     \* DocWordsSpace::curSeq
    gen,        \* history: number of reset() calls since construction
    hist,       \* history: offset -> [gen, termID] of the last set(), gen -1 if none or unset since
    lastCall    \* history: the last mutating call, [op, termID, pos]

VARIABLES
    n,          \* collection->sources.size()
    corrupt,    \* the source indices whose single-source exec_query throws
    docFilter,  \* IndexDocumentsFilter *f: "null" or a predicate's name
    pc,         \* where the calling thread is
    i,          \* the loop counter of the running driver
    outSeq,     \* out of exec_query over the collection
    outPar,     \* out of exec_query_par
    futures,    \* futures of exec_query_par: the task of each future
    task,       \* task index -> [st, filter]: the std::async task of source i
    running,    \* the source indices whose single-source exec_query is executing
    seqStarts,  \* history: the source indices exec_query started on, in order
    filter,     \* the calling thread's local filter (exec_query, and exec_query_par for n == 1)
    nextId,     \* history: how many filters make_unique has built
    seqRet,     \* how exec_query over the collection ended
    parRet,     \* how exec_query_par ended
    argKind,    \* Arg &&... args: "lvalue" (Arg = U&) or "rvalue" (Arg = U, a movable object)
    args,       \* the caller's argument objects: "intact", "moved" (moved from) or "torn"
    parRuns,    \* history: task index -> single-source exec_query calls made by exec_query_par
    raced,      \* two tasks' constructors have worked on args at the same time
    query,      \* the query (const query &in), shared by every run
    sources     \* source index -> the documents that index source holds postings for

dwsVars == <<alive, maxPos, positions, curSeq, gen, hist, lastCall>>

execVars == <<n, corrupt, docFilter, pc, i, outSeq, outPar, futures, task,
              running, seqStarts, filter, nextId, seqRet, parRet,
              argKind, raced, args, parRuns, query, sources>>

vars == <<alive, maxPos, positions, curSeq, gen, hist, lastCall,
          n, corrupt, docFilter, pc, i, outSeq, outPar, futures, task,
          running, seqStarts, filter, nextId, seqRet, parRet,
          argKind, raced, args, parRuns, query, sources>>

\* ------------------------------------------------------------------------
\* DocWordsSpace (docwordspace.h)
\* ------------------------------------------------------------------------

\* struct position, zero-initialised (calloc / memset).
ZeroPosition == [docSeq |-> 0, termID |-> 0]

\* The object: the three data members.
Self == [positions |-> positions, maxPos |-> maxPos, curSeq |-> curSeq]

\* A constructor that forgets the "+ 1" and starts the generation at 0.
DocWordsSpace_seq0(max) ==
    [positions |-> [x \in 0..(max + MaxPhraseSize) |-> ZeroPosition],
     maxPos    |-> max,
     curSeq    |-> 0,
     ok        |-> (max # 0 /\ max <= MaxPosition)]

\* DocWordsSpace(max): calloc of max + 1 + MaxPhraseSize slots, curSeq = 1,
\* then require(max && max <= MaxPosition).
DocWordsSpace(max) ==
    [positions |-> [x \in 0..(max + MaxPhraseSize) |-> ZeroPosition],
     maxPos    |-> max,
     curSeq    |-> 1,
     ok        |-> (max # 0 /\ max <= MaxPosition)]

\* reset() without the full clear on overflow.
reset_noclear(self) ==
    IF self.curSeq = UINT16_MAX
    THEN [self EXCEPT !.curSeq = 1]
    ELSE [self EXCEPT !.curSeq = (self.curSeq + 1) % (UINT16_MAX + 1)]

\* reset() that lets the counter run through 0 instead of restarting at 1.
reset_wrap0(self) ==
    [self EXCEPT !.curSeq = (self.curSeq + 1) % (UINT16_MAX + 1)]

\* reset() that clears slots 0..maxPos on every call.
reset_clearall(self) ==
    [self EXCEPT
        !.positions = [x \in DOMAIN self.positions |->
                          IF x <= self.maxPos THEN ZeroPosition
                          ELSE self.positions[x]],
        !.curSeq = IF self.curSeq = UINT16_MAX THEN 1 ELSE self.curSeq + 1]

\* reset(): on curSeq == UINT16_MAX memset slots 0..maxPos and restart at 1,
\* else ++curSeq.
reset(self) ==
    IF self.curSeq = UINT16_MAX
    THEN [self EXCEPT
            !.positions = [x \in DOMAIN self.positions |->
                              IF x <= self.maxPos THEN ZeroPosition
                              ELSE self.positions[x]],
            !.curSeq = 1]
    ELSE [self EXCEPT !.curSeq = (self.curSeq + 1) % (UINT16_MAX + 1)]

\* k consecutive reset() calls, none of which meets curSeq == UINT16_MAX:
\* each one takes the else branch, ++curSeq.
resetMany(self, k) ==
    [self EXCEPT !.curSeq = self.curSeq + k]

\* set() that stores the term but not the generation.
set_noseq(self, termID, pos) ==
    [self EXCEPT !.positions[pos].termID = termID]

\* set() that writes one slot too far.
set_shift(self, termID, pos) ==
    [self EXCEPT !.positions[pos + 1] = [docSeq |-> self.curSeq, termID |-> termID]]

\* set(termID, pos): positions[pos] = {curSeq, termID}.
set(self, termID, pos) ==
    [self EXCEPT !.positions[pos] = [docSeq |-> self.curSeq, termID |-> termID]]

\* test() that ignores the generation.
test_noseq(self, termID, pos) ==
    self.positions[pos].termID = termID

\* test() that ignores the term.
test_noterm(self, termID, pos) ==
    self.positions[pos].docSeq = self.curSeq

\* test(termID, pos): docSeq == curSeq && termID == termID.
test(self, termID, pos) ==
    /\ self.positions[pos].docSeq = self.curSeq
    /\ self.positions[pos].termID = termID

\* unset() that zeroes the whole slot.
unset_whole(self, pos) ==
    [self EXCEPT !.positions[pos] = ZeroPosition]

\* unset(pos): positions[pos].docSeq = 0.
unset(self, pos) ==
    [self EXCEPT !.positions[pos].docSeq = 0]

\* The offsets test_phrase looks at for phrase terms phraseTerms and the
\* candidate first-token positions cands.
phraseReads(phraseTerms, cands) ==
    {cands[c] + k : c \in 1..Len(cands), k \in 0..(Len(phraseTerms) - 1)}

\* test_phrase(phraseTerms, phraseFirstTokenPositions, cnt): some candidate
\* offset o has phraseTerms[k] at o + k for every k.
test_phrase(self, phraseTerms, cands) ==
    \E c \in 1..Len(cands) :
        \A k \in 0..(Len(phraseTerms) - 1) :
            test(self, phraseTerms[k + 1], cands[c] + k)

\* ------------------------------------------------------------------------
\* The calls a scan makes on one DocWordsSpace
\* ------------------------------------------------------------------------

NoHist == [gen |-> -1, termID |-> 0]

Call(op, termID, pos) == [op |-> op, termID |-> termID, pos |-> pos]

\* Construction with any max, valid or not.
InitDWS ==
    \E max \in 0..(MaxPosition + 1) :
        LET o == DocWordsSpace(max) IN
        /\ alive = o.ok
        /\ maxPos = o.maxPos
        /\ positions = o.positions
        /\ curSeq = o.curSeq
        /\ gen = 0
        /\ hist = [x \in 0..(max + MaxPhraseSize) |-> NoHist]
        /\ lastCall = Call("ctor", 0, 0)

\* No query is being executed.
ExecIdle ==
    /\ n = 0
    /\ corrupt = {}
    /\ docFilter = "null"
    /\ pc = "idle"
    /\ i = 0
    /\ outSeq = <<>>
    /\ outPar = <<>>
    /\ futures = <<>>
    /\ task = <<>>
    /\ running = {}
    /\ seqStarts = <<>>
    /\ filter = [id |-> -1, ctorArg |-> "none", source |-> -1, registry |-> -1, matches |-> {}]
    /\ nextId = 0
    /\ seqRet = "none"
    /\ parRet = "none"
    /\ argKind = "lvalue"
    /\ args = "intact"
    /\ parRuns = <<>>
    /\ raced = FALSE
    /\ query = "ast"
    /\ sources = <<>>

Reset ==
    /\ alive
    /\ curSeq < MaxLowSeq \/ curSeq > BurstLen
    /\ curSeq = UINT16_MAX => gen \div UINT16_MAX < MaxWraps
    /\ LET o == reset(Self) IN
        /\ positions' = o.positions
        /\ curSeq' = o.curSeq
    /\ gen' = gen + 1
    /\ lastCall' = Call("reset", 0, 0)
    /\ UNCHANGED <<alive, maxPos, hist>>
    /\ UNCHANGED execVars

ResetBurst ==
    /\ alive
    /\ curSeq + BurstLen <= UINT16_MAX
    /\ gen \div UINT16_MAX < MaxWraps
    /\ LET o == resetMany(Self, BurstLen) IN
        /\ positions' = o.positions
        /\ curSeq' = o.curSeq
    /\ gen' = gen + BurstLen
    /\ lastCall' = Call("reset", 0, 0)
    /\ UNCHANGED <<alive, maxPos, hist>>
    /\ UNCHANGED execVars

Set(termID, pos) ==
    /\ alive
    /\ LET o == set(Self, termID, pos) IN
        /\ positions' = o.positions
        /\ curSeq' = o.curSeq
    /\ hist' = [hist EXCEPT ![pos] = [gen |-> gen, termID |-> termID]]
    /\ lastCall' = Call("set", termID, pos)
    /\ UNCHANGED <<alive, maxPos, gen>>
    /\ UNCHANGED execVars

Unset(pos) ==
    /\ alive
    /\ LET o == unset(Self, pos) IN
        /\ positions' = o.positions
        /\ curSeq' = o.curSeq
    /\ hist' = [hist EXCEPT ![pos] = NoHist]
    /\ lastCall' = Call("unset", 0, pos)
    /\ UNCHANGED <<alive, maxPos, gen>>
    /\ UNCHANGED execVars

NextDWS ==
    \/ Reset
    \/ ResetBurst
    \/ \E termID \in Terms, pos \in 1..maxPos : Set(termID, pos)
    \/ \E pos \in 1..maxPos : Unset(pos)

Init == InitDWS /\ ExecIdle

Next == NextDWS

Spec == Init /\ [][Next]_vars

\* ------------------------------------------------------------------------
\* exec_query over a collection and exec_query_par (exec.h)
\* ------------------------------------------------------------------------

\* The documents index source src holds postings for.
SourceDocs(src) == {10 * (src + 1) + d : d \in 1..MaxDocs}

\* The documents the masked_documents_registry of source index idx excludes.
MaskedDocs(idx) == {10 * (idx + 1) + MaxDocs}

\* IndexDocumentsFilter *f: nullptr accepts every document.
Accepts(f, doc) == f = "null" \/ (f = "even" /\ doc % 2 = 0)

\* No filter object.
NoFilter == [id |-> -1, ctorArg |-> "none", source |-> -1, registry |-> -1, matches |-> {}]

\* std::make_unique<T>(std::forward<Arg>(args)...): a new, empty filter built
\* from the argument value arg; id tells objects apart.
make_filter(id, arg) ==
    [id |-> id, ctorArg |-> arg, source |-> -1, registry |-> -1, matches |-> {}]

\* What std::forward<Arg>(args)... leaves in the caller's arguments once T's
\* constructor has taken them: an rvalue is moved from, an lvalue is kept.
forward_args(kind, a) == IF kind = "rvalue" THEN "moved" ELSE a

\* collection->sources[idx]
sourceAt(idx) == idx

\* collection->scanner_registry_for(idx)
scanner_registry_for(idx) == idx

\* An exec_query that takes the postings out of the source as it reads them.
exec_query_drain(q, source, registry, flt, f) ==
    [filter |-> [flt EXCEPT
                    !.source = source,
                    !.registry = registry,
                    !.matches = @ \cup {d \in sources[source] :
                                            d \notin MaskedDocs(registry) /\ Accepts(f, d)}],
     query |-> q,
     source |-> {}]

\* exec_query(in, source, maskedDocumentsRegistry, filter, f): what the call
\* leaves behind. The filter has received the documents of source that the
\* registry does not mask and f accepts; the query and the source are as
\* they were.
exec_query(q, source, registry, flt, f) ==
    [filter |-> [flt EXCEPT
                    !.source = source,
                    !.registry = registry,
                    !.matches = @ \cup {d \in sources[source] :
                                            d \notin MaskedDocs(registry) /\ Accepts(f, d)}],
     query |-> q,
     source |-> sources[source]]

\* The call exec_query(in, sources[idx], scanner_registry_for(idx), flt, f)
\* of a driver: what it does to the query and to the source it was given.
ExecEffect(idx, flt) ==
    IF idx \in corrupt
    THEN UNCHANGED <<query, sources>>
    ELSE LET r == exec_query(query, sourceAt(idx), scanner_registry_for(idx), flt, docFilter)
         IN  /\ query' = r.query
             /\ sources' = [sources EXCEPT ![sourceAt(idx)] = r.source]

\* A harness calls exec_query over the collection, then exec_query_par, with
\* the same query, collection, document filter and constructor arguments.
InitExec ==
    /\ n \in 0..MaxSources
    /\ corrupt \in SUBSET (0..(n - 1))
    /\ docFilter \in {"null", "even"}
    /\ pc = "seq"
    /\ i = 0
    /\ outSeq = <<>>
    /\ outPar = <<>>
    /\ futures = <<>>
    /\ task = [k \in 0..(n - 1) |-> [st |-> "none", filter |-> NoFilter]]
    /\ running = {}
    /\ seqStarts = <<>>
    /\ filter = NoFilter
    /\ nextId = 0
    /\ seqRet = "none"
    /\ parRet = "none"
    /\ argKind \in {"lvalue", "rvalue"}
    /\ args = "intact"
    /\ parRuns = [k \in 0..(n - 1) |-> 0]
    /\ raced = FALSE
    /\ query = "ast"
    /\ sources = [k \in 0..(n - 1) |-> SourceDocs(k)]

\* No DocWordsSpace is under test.
DWSIdle ==
    /\ alive = FALSE
    /\ maxPos = 0
    /\ positions = <<>>
    /\ curSeq = 1
    /\ gen = 0
    /\ hist = <<>>
    /\ lastCall = Call("none", 0, 0)

\* exec_query, loop body up to the call of the single-source exec_query.
SeqBegin ==
    /\ pc = "seq"
    /\ i # n
    /\ filter' = make_filter(nextId, args)
    /\ args' = forward_args(argKind, args)
    /\ nextId' = nextId + 1
    /\ running' = running \cup {i}
    /\ seqStarts' = Append(seqStarts, i)
    /\ pc' = "seq_exec"
    /\ UNCHANGED <<n, corrupt, docFilter, i, outSeq, outPar, futures, task,
                   seqRet, parRet, argKind, raced, parRuns>>
    /\ UNCHANGED <<query, sources>>
    /\ UNCHANGED dwsVars

\* The loop body that puts each filter in front of the ones before it.
SeqEnd_front ==
    /\ pc = "seq_exec"
    /\ running' = running \ {i}
    /\ filter' = NoFilter
    /\ IF i \in corrupt
       THEN /\ seqRet' = "threw"
            /\ outSeq' = <<>>
            /\ i' = 0
            /\ args' = "intact"
            /\ pc' = "par"
       ELSE /\ outSeq' = <<exec_query(query, sourceAt(i), scanner_registry_for(i), filter, docFilter).filter>> \o outSeq
            /\ i' = i + 1
            /\ pc' = "seq"
            /\ UNCHANGED <<seqRet, args>>
    /\ UNCHANGED <<n, corrupt, docFilter, outPar, futures, task, seqStarts,
                   nextId, parRet, argKind, raced, parRuns>>
    /\ ExecEffect(i, filter)
    /\ UNCHANGED dwsVars

\* exec_query, rest of the loop body: the single-source exec_query runs on
\* sources[i] with scanner_registry_for(i) and either throws, which ends the
\* call, or returns, and then out.push_back(filter), ++i.
SeqEnd ==
    /\ pc = "seq_exec"
    /\ running' = running \ {i}
    /\ filter' = NoFilter
    /\ IF i \in corrupt
       THEN /\ seqRet' = "threw"
            /\ outSeq' = <<>>
            /\ i' = 0
            /\ args' = "intact"
            /\ pc' = "par"
       ELSE /\ outSeq' = Append(outSeq, exec_query(query, sourceAt(i), scanner_registry_for(i), filter, docFilter).filter)
            /\ i' = i + 1
            /\ pc' = "seq"
            /\ UNCHANGED <<seqRet, args>>
    /\ UNCHANGED <<n, corrupt, docFilter, outPar, futures, task, seqStarts,
                   nextId, parRet, argKind, raced, parRuns>>
    /\ ExecEffect(i, filter)
    /\ UNCHANGED dwsVars

\* exec_query: i == n, return out. The harness then passes the same
\* arguments anew to exec_query_par.
SeqReturn ==
    /\ pc = "seq"
    /\ i = n
    /\ seqRet' = "returned"
    /\ i' = 0
    /\ args' = "intact"
    /\ pc' = "par"
    /\ UNCHANGED <<n, corrupt, docFilter, outSeq, outPar, futures, task,
                   running, seqStarts, filter, nextId, parRet, argKind, raced, parRuns>>
    /\ UNCHANGED <<query, sources>>
    /\ UNCHANGED dwsVars

\* exec_query_par: if (!n) return out.
ParEmpty ==
    /\ pc = "par"
    /\ n = 0
    /\ parRet' = "returned"
    /\ pc' = "done"
    /\ UNCHANGED <<n, corrupt, docFilter, i, outSeq, outPar, futures, task,
                   running, seqStarts, filter, nextId, seqRet>>
    /\ UNCHANGED <<argKind, raced, args, parRuns>>
    /\ UNCHANGED <<query, sources>>
    /\ UNCHANGED dwsVars

\* exec_query_par, n == 1: up to the inline call of exec_query.
ParInlineBegin ==
    /\ pc = "par"
    /\ n = 1
    /\ filter' = make_filter(nextId, args)
    /\ args' = forward_args(argKind, args)
    /\ nextId' = nextId + 1
    /\ running' = running \cup {0}
    /\ parRuns' = [parRuns EXCEPT ![0] = @ + 1]
    /\ pc' = "par_inline"
    /\ UNCHANGED <<n, corrupt, docFilter, i, outSeq, outPar, futures, task,
                   seqStarts, seqRet, parRet, argKind, raced>>
    /\ UNCHANGED <<query, sources>>
    /\ UNCHANGED dwsVars

\* The n == 1 branch that returns out without the push_back.
ParInlineEnd_nopush ==
    /\ pc = "par_inline"
    /\ running' = running \ {0}
    /\ filter' = NoFilter
    /\ parRet' = (IF 0 \in corrupt THEN "threw" ELSE "returned")
    /\ outPar' = <<>>
    /\ pc' = "done"
    /\ UNCHANGED <<n, corrupt, docFilter, i, outSeq, futures, task,
                   seqStarts, nextId, seqRet>>
    /\ UNCHANGED <<argKind, raced, args, parRuns>>
    /\ ExecEffect(0, filter)
    /\ UNCHANGED dwsVars

\* exec_query_par, n == 1: exec_query throws or returns; push_back, return out.
ParInlineEnd ==
    /\ pc = "par_inline"
    /\ running' = running \ {0}
    /\ filter' = NoFilter
    /\ IF 0 \in corrupt
       THEN /\ parRet' = "threw"
            /\ outPar' = <<>>
       ELSE /\ parRet' = "returned"
            /\ outPar' = Append(outPar, exec_query(query, sourceAt(0), scanner_registry_for(0), filter, docFilter).filter)
    /\ pc' = "done"
    /\ UNCHANGED <<n, corrupt, docFilter, i, outSeq, futures, task,
                   seqStarts, nextId, seqRet>>
    /\ UNCHANGED <<argKind, raced, args, parRuns>>
    /\ ExecEffect(0, filter)
    /\ UNCHANGED dwsVars

\* exec_query_par, n > 1: futures.push_back(std::async(launch::async, ..., i)).
ParSpawn ==
    /\ pc = "par"
    /\ n > 1
    /\ i # n
    /\ futures' = Append(futures, i)
    /\ task' = [task EXCEPT ![i].st = "spawned"]
    /\ i' = i + 1
    /\ UNCHANGED <<n, corrupt, docFilter, pc, outSeq, outPar, running,
                   seqStarts, filter, nextId, seqRet, parRet>>
    /\ UNCHANGED <<argKind, raced, args, parRuns>>
    /\ UNCHANGED <<query, sources>>
    /\ UNCHANGED dwsVars

\* exec_query_par, n > 1: the spawn loop ends.
ParSpawned ==
    /\ pc = "par"
    /\ n > 1
    /\ i = n
    /\ pc' = "par_join"
    /\ UNCHANGED <<n, corrupt, docFilter, i, outSeq, outPar, futures, task,
                   running, seqStarts, filter, nextId, seqRet, parRet>>
    /\ UNCHANGED <<argKind, raced, args, parRuns>>
    /\ UNCHANGED <<query, sources>>
    /\ UNCHANGED dwsVars

\* The task of source t starts on its thread: source and scanner are looked
\* up, and the call of make_unique<T>(std::forward<Arg>(args)...) begins.
TaskBegin(t) ==
    /\ task[t].st = "spawned"
    /\ task' = [task EXCEPT ![t].st = "constructing"]
    /\ UNCHANGED <<n, corrupt, docFilter, pc, i, outSeq, outPar, futures,
                   running, seqStarts, filter, nextId, seqRet, parRet,
                   argKind, raced, args, parRuns>>
    /\ UNCHANGED <<query, sources>>
    /\ UNCHANGED dwsVars

\* The tasks other than t whose constructor has read the caller's arguments
\* and has not yet finished writing the moved-from value back to them.
Movers(t) ==
    IF argKind = "rvalue"
    THEN {u \in DOMAIN task : u # t /\ task[u].st = "moving"}
    ELSE {}

\* The argument values the constructor in task t can read. Tasks share the
\* caller's objects without synchronisation: while another task is writing
\* them the read may give what they held, the moved-from value, or a mix.
ArgSeen(t) ==
    IF Movers(t) # {} THEN {args, "moved", "torn"} ELSE {args}

\* What the constructor in task t leaves in the caller's arguments: the
\* forwarded value's remains, or a mix when another task writes them too.
ArgLeft(t) ==
    IF Movers(t) # {}
    THEN {forward_args(argKind, args), "torn"}
    ELSE {forward_args(argKind, args)}

\* T's constructor in task t reads the forwarded arguments into the new
\* filter, an object of the task's own (the id nextId + t is no other's).
\* A read while another task is between its read and its write is a race.
TaskArgRead(t) ==
    /\ task[t].st = "constructing"
    /\ \E a \in ArgSeen(t) :
        task' = [task EXCEPT ![t] = [st |-> "moving", filter |-> make_filter(nextId + t, a)]]
    /\ raced' = (raced \/ Movers(t) # {})
    /\ UNCHANGED <<n, corrupt, docFilter, pc, i, outSeq, outPar, futures,
                   running, seqStarts, filter, nextId, seqRet, parRet,
                   argKind, args, parRuns>>
    /\ UNCHANGED <<query, sources>>
    /\ UNCHANGED dwsVars

\* T's constructor in task t leaves the arguments it took (moved from, for
\* an rvalue); the filter is built, and the task calls exec_query.
TaskBuilt(t) ==
    /\ task[t].st = "moving"
    /\ task' = [task EXCEPT ![t].st = "running"]
    /\ args' \in ArgLeft(t)
    /\ running' = running \cup {t}
    /\ parRuns' = [parRuns EXCEPT ![t] = @ + 1]
    /\ UNCHANGED <<n, corrupt, docFilter, pc, i, outSeq, outPar, futures,
                   seqStarts, filter, nextId, seqRet, parRet, argKind, raced>>
    /\ UNCHANGED <<query, sources>>
    /\ UNCHANGED dwsVars

\* The process after the race's damage has ended it: no thread goes on, and
\* exec_query_par neither returns nor throws.
Crashed ==
    /\ task' = [k \in DOMAIN task |->
                   IF task[k].st \in {"spawned", "constructing", "moving", "running"}
                   THEN [task[k] EXCEPT !.st = "crashed"]
                   ELSE task[k]]
    /\ running' = {}
    /\ pc' = "crashed"
    /\ UNCHANGED <<n, corrupt, docFilter, i, outSeq, outPar, futures,
                   seqStarts, filter, nextId, seqRet, parRet,
                   argKind, raced, args, parRuns>>
    /\ UNCHANGED <<query, sources>>
    /\ UNCHANGED dwsVars

\* The unsynchronised moves end the process on the thread of task t: in its
\* constructor, in exec_query, or while its filter is destroyed after a throw.
TaskCrash(t) ==
    /\ raced
    /\ task[t].st \in {"moving", "running"}
    /\ Crashed

\* The unsynchronised moves end the process on the calling thread, once
\* tasks have raced: while it spawns, while it joins, or while the futures
\* and out destroy their filters in the unwinding (two filters may own the
\* same buffer).
ParCrash ==
    /\ raced
    /\ pc \in {"par", "par_join", "par_unwind"}
    /\ Crashed

\* The objects the task of source t is writing in this state: the caller's
\* arguments while its constructor moves from them, the filter it builds,
\* then its filter and its own scanner registry while exec_query runs.
TaskWrites(t) ==
    IF task[t].st = "moving"
    THEN {<<"filter", task[t].filter.id>>}
            \cup (IF argKind = "rvalue" THEN {<<"args", 0>>} ELSE {})
    ELSE IF task[t].st = "running"
    THEN {<<"filter", task[t].filter.id>>, <<"registry", scanner_registry_for(t)>>}
    ELSE {}

\* The objects the task of source t is reading in this state.
TaskReads(t) ==
    IF task[t].st = "constructing"
    THEN {<<"collection", 0>>}
    ELSE IF task[t].st = "moving"
    THEN {<<"args", 0>>}
    ELSE IF task[t].st = "running"
    THEN {<<"query", 0>>, <<"docFilter", 0>>, <<"source", sourceAt(t)>>}
    ELSE {}

\* The task of source t ends: exec_query throws (the future holds the
\* exception) or returns (the future holds the filter).
TaskEnd(t) ==
    /\ task[t].st = "running"
    /\ running' = running \ {t}
    /\ task' = IF t \in corrupt
               THEN [task EXCEPT ![t] = [st |-> "threw", filter |-> NoFilter]]
               ELSE [task EXCEPT ![t] =
                        [st |-> "ready",
                         filter |-> exec_query(query, sourceAt(t), scanner_registry_for(t),
                                               task[t].filter, docFilter).filter]]
    /\ UNCHANGED <<n, corrupt, docFilter, pc, i, outSeq, outPar, futures,
                   seqStarts, filter, nextId, seqRet, parRet>>
    /\ UNCHANGED <<argKind, raced, args, parRuns>>
    /\ ExecEffect(t, task[t].filter)
    /\ UNCHANGED dwsVars

\* The last element of futures.
Back == futures[Len(futures)]

\* exec_query_par: f = futures.back(); out.push_back(f.get()); pop_back().
\* get() waits for the task and hands over its filter.
ParJoin ==
    /\ pc = "par_join"
    /\ futures # <<>>
    /\ task[Back].st = "ready"
    /\ outPar' = Append(outPar, task[Back].filter)
    /\ task' = [task EXCEPT ![Back] = [st |-> "joined", filter |-> NoFilter]]
    /\ futures' = SubSeq(futures, 1, Len(futures) - 1)
    /\ UNCHANGED <<n, corrupt, docFilter, pc, i, outSeq, running, seqStarts,
                   filter, nextId, seqRet, parRet>>
    /\ UNCHANGED <<argKind, raced, args, parRuns>>
    /\ UNCHANGED <<query, sources>>
    /\ UNCHANGED dwsVars

\* A join loop that catches the task's exception and goes on.
ParJoinThrow_drop ==
    /\ pc = "par_join"
    /\ futures # <<>>
    /\ task[Back].st = "threw"
    /\ futures' = SubSeq(futures, 1, Len(futures) - 1)
    /\ UNCHANGED <<n, corrupt, docFilter, pc, i, outSeq, outPar, task,
                   running, seqStarts, filter, nextId, seqRet, parRet>>
    /\ UNCHANGED <<argKind, raced, args, parRuns>>
    /\ UNCHANGED <<query, sources>>
    /\ UNCHANGED dwsVars

\* exec_query_par: f.get() rethrows the task's exception.
ParJoinThrow ==
    /\ pc = "par_join"
    /\ futures # <<>>
    /\ task[Back].st = "threw"
    /\ pc' = "par_unwind"
    /\ UNCHANGED <<n, corrupt, docFilter, i, outSeq, outPar, futures, task,
                   running, seqStarts, filter, nextId, seqRet, parRet>>
    /\ UNCHANGED <<argKind, raced, args, parRuns>>
    /\ UNCHANGED <<query, sources>>
    /\ UNCHANGED dwsVars

\* An unwinding whose future destructors do not wait (detached tasks).
ParUnwindFuture_nowait ==
    /\ pc = "par_unwind"
    /\ futures # <<>>
    /\ task' = [task EXCEPT ![Head(futures)].filter = NoFilter]
    /\ futures' = Tail(futures)
    /\ UNCHANGED <<n, corrupt, docFilter, pc, i, outSeq, outPar, running,
                   seqStarts, filter, nextId, seqRet, parRet>>
    /\ UNCHANGED <<argKind, raced, args, parRuns>>
    /\ UNCHANGED <<query, sources>>
    /\ UNCHANGED dwsVars

\* exec_query_par: the exception leaves the function and futures is
\* destroyed, one future after the other from the front: the destructor of
\* a std::async future waits for its task, then destroys the task's result
\* (its filter). Tasks of later futures go on running meanwhile.
ParUnwindFuture ==
    /\ pc = "par_unwind"
    /\ futures # <<>>
    /\ task[Head(futures)].st \in {"ready", "threw"}
    /\ task' = [task EXCEPT ![Head(futures)].filter = NoFilter]
    /\ futures' = Tail(futures)
    /\ UNCHANGED <<n, corrupt, docFilter, pc, i, outSeq, outPar, running,
                   seqStarts, filter, nextId, seqRet, parRet>>
    /\ UNCHANGED <<argKind, raced, args, parRuns>>
    /\ UNCHANGED <<query, sources>>
    /\ UNCHANGED dwsVars

\* exec_query_par: after futures, out is destroyed with the filters
\* collected so far, and the exception reaches the caller.
ParUnwind ==
    /\ pc = "par_unwind"
    /\ futures = <<>>
    /\ outPar' = <<>>
    /\ parRet' = "threw"
    /\ pc' = "done"
    /\ UNCHANGED <<n, corrupt, docFilter, i, outSeq, futures, task, running,
                   seqStarts, filter, nextId, seqRet>>
    /\ UNCHANGED <<argKind, raced, args, parRuns>>
    /\ UNCHANGED <<query, sources>>
    /\ UNCHANGED dwsVars

\* exec_query_par: futures is empty, return out.
ParReturn ==
    /\ pc = "par_join"
    /\ futures = <<>>
    /\ parRet' = "returned"
    /\ pc' = "done"
    /\ UNCHANGED <<n, corrupt, docFilter, i, outSeq, outPar, futures, task,
                   running, seqStarts, filter, nextId, seqRet>>
    /\ UNCHANGED <<argKind, raced, args, parRuns>>
    /\ UNCHANGED <<query, sources>>
    /\ UNCHANGED dwsVars

NextExec ==
    \/ SeqBegin
    \/ SeqEnd
    \/ SeqReturn
    \/ ParEmpty
    \/ ParInlineBegin
    \/ ParInlineEnd
    \/ ParSpawn
    \/ ParSpawned
    \/ \E t \in 0..(n - 1) : TaskBegin(t)
    \/ \E t \in 0..(n - 1) : TaskArgRead(t)
    \/ \E t \in 0..(n - 1) : TaskBuilt(t)
    \/ \E t \in 0..(n - 1) : TaskCrash(t)
    \/ ParCrash
    \/ \E t \in 0..(n - 1) : TaskEnd(t)
    \/ ParJoin
    \/ ParJoinThrow
    \/ ParUnwindFuture
    \/ ParUnwind
    \/ ParReturn

ExecInit == InitExec /\ DWSIdle

ExecSpec == ExecInit /\ [][NextExec]_vars

\* What a filter holds, apart from which object it is.
Content(flt) == [source |-> flt.source, registry |-> flt.registry, matches |-> flt.matches]

\* C8 Parallel output order: the sequence exec_query_par returns has, at
\* index k, the filter that was run against source k.
C8_ParOutputOrder ==
    parRet = "returned" =>
        /\ Len(outPar) = n
        /\ \A k \in 1..Len(outPar) : outPar[k].source = sourceAt(k - 1)

\* C9 Sequential/parallel equivalence: with the same N >= 2 sources and
\* arguments, the two drivers return sequences of length N with the same
\* content at each index, however the tasks interleave.
C9_SeqParEquivalence ==
    (n >= 2 /\ seqRet = "returned" /\ parRet = "returned") =>
        /\ Len(outSeq) = n
        /\ Len(outPar) = n
        /\ \A k \in 1..n : Content(outPar[k]) = Content(outSeq[k])

\* C10 Sequential fan-out: exec_query over the collection starts the sources
\* in ascending order, one at a time, each exactly once, each with a filter
\* of its own and with its own scanner registry, and returns n filters,
\* the k-th being the one used for source k.
C10_SeqFanOut ==
    /\ seqStarts = [k \in 1..Len(seqStarts) |-> k - 1]
    /\ pc \in {"seq", "seq_exec"} =>
        /\ Len(outSeq) = i
        /\ running = (IF pc = "seq_exec" THEN {i} ELSE {})
        /\ Len(seqStarts) = i + (IF pc = "seq_exec" THEN 1 ELSE 0)
        /\ pc = "seq_exec" => filter.id \notin {outSeq[k].id : k \in 1..Len(outSeq)}
    /\ \A k \in 1..Len(outSeq) :
        /\ outSeq[k].source = sourceAt(k - 1)
        /\ outSeq[k].registry = scanner_registry_for(k - 1)
        /\ \A k2 \in 1..Len(outSeq) : k2 # k => outSeq[k2].id # outSeq[k].id
    /\ seqRet = "returned" => (Len(outSeq) = n /\ Len(seqStarts) = n)

\* C10 witness: the sequential driver has returned for the largest collection.
C10_Witness ==
    /\ seqRet = "returned"
    /\ n = MaxSources
    /\ Len(outSeq) = n

\* C11 Degenerate fan-out: with no source both drivers return an empty
\* sequence and exec_query_par builds no filter, spawns no task and runs
\* nothing; with one source exec_query_par spawns no task, runs the source
\* once on the calling thread and returns one filter equal to the
\* sequential driver's.
C11_Degenerate ==
    /\ n = 0 =>
        /\ seqRet # "none" => (seqRet = "returned" /\ outSeq = <<>>)
        /\ parRet # "none" => (parRet = "returned" /\ outPar = <<>>)
        /\ futures = <<>>
        /\ running = {}
        /\ nextId = 0
    /\ n = 1 =>
        /\ futures = <<>>
        /\ task[0].st = "none"
        /\ pc = "par_inline" => (running = {0} /\ parRuns[0] = 1)
        /\ parRet = "returned" =>
            /\ Len(outPar) = 1
            /\ parRuns[0] = 1
            /\ seqRet = "returned" =>
                /\ Len(outSeq) = 1
                /\ Content(outPar[1]) = Content(outSeq[1])
                /\ outPar[1].ctorArg = outSeq[1].ctorArg

\* C11 witness: one source, both drivers returned a filter with matches.
C11_Witness ==
    /\ n = 1
    /\ seqRet = "returned"
    /\ parRet = "returned"
    /\ Len(outPar) = 1
    /\ outPar[1].matches # {}

\* C11 witness of the empty collection.
C11_WitnessEmpty == n = 0 /\ seqRet = "returned" /\ parRet = "returned"

\* The tasks that were spawned and have not finished.
Unfinished == {k \in DOMAIN task : task[k].st \in {"spawned", "constructing", "moving", "running"}}

\* C12 Join before return: for n > 1, once exec_query_par has returned or
\* thrown to its caller, no spawned task is still to start or running.
C12_JoinBeforeReturn ==
    (n > 1 /\ parRet # "none") => (Unfinished = {} /\ running = {})

\* C12 witness: exec_query_par threw, and a task whose future was never
\* read had run to its end before the caller got control.
C12_Witness ==
    /\ n > 1
    /\ parRet = "threw"
    /\ \E k \in DOMAIN task : task[k].st = "ready"

\* C13 Task failure is surfaced: for n > 1, if a task failed, exec_query_par
\* ends by throwing and hands back no filters; and every filter it collects
\* comes from a task that ran to its end without failing.
C13_FailureSurfaced ==
    n > 1 =>
        /\ (parRet # "none" /\ \E k \in DOMAIN task : task[k].st = "threw") =>
            (parRet = "threw" /\ outPar = <<>>)
        /\ parRet = "returned" => corrupt = {}
        /\ \A k \in 1..Len(outPar) :
            /\ outPar[k].id >= 0
            /\ outPar[k].source >= 0
            /\ outPar[k].source \notin corrupt

\* C13 witness: exec_query_par threw after it had already collected the
\* filter of another task.
C13_Witness ==
    /\ n > 1
    /\ parRet = "threw"
    /\ outPar = <<>>
    /\ \E k \in DOMAIN task : task[k].st = "joined"

\* C14 No shared mutable state: no two tasks access the same object at the
\* same time with one of them writing it, and no two tasks hold the same filter.
C14_NoSharedWrites ==
    \A t, u \in DOMAIN task :
        t # u =>
            /\ TaskWrites(t) \cap (TaskReads(u) \cup TaskWrites(u)) = {}
            /\ (task[t].filter.id >= 0 => task[t].filter.id # task[u].filter.id)

\* C15 One task per source: for n > 1, a returned exec_query_par has spawned
\* n tasks, run each source index once, with its own registry, built every
\* filter from the same argument values, and returns n filters.
C15_OneTaskPerSource ==
    (n > 1 /\ parRet = "returned") =>
        /\ \A k \in DOMAIN task : task[k].st = "joined"
        /\ \A k \in DOMAIN parRuns : parRuns[k] = 1
        /\ Len(outPar) = n
        /\ {outPar[k].source : k \in 1..Len(outPar)} = {sourceAt(k) : k \in 0..(n - 1)}
        /\ \A k \in 1..Len(outPar) :
            /\ outPar[k].registry = scanner_registry_for(outPar[k].source)
            /\ \A k2 \in 1..Len(outPar) : outPar[k2].ctorArg = outPar[k].ctorArg

\* The filters a single-source exec_query has run on and returned.
RanFilters ==
    {outSeq[k] : k \in 1..Len(outSeq)} \cup {outPar[k] : k \in 1..Len(outPar)}
    \cup {task[k].filter : k \in {u \in DOMAIN task : task[u].st = "ready"}}

\* C16 Gating: a document reaches the match filter only if it is a document
\* of the source, the source's masked-documents registry does not exclude
\* it, and the document filter is absent or accepts it; and whatever runs
\* of exec_query have been made, the query and every source are as they
\* were given (only filters have changed).
C16_Gating ==
    /\ \A flt \in RanFilters :
        \A d \in flt.matches :
            /\ d \in SourceDocs(flt.source)
            /\ d \notin MaskedDocs(flt.source)
            /\ (docFilter = "null" \/ Accepts(docFilter, d))
    /\ query = "ast"
    /\ \A k \in DOMAIN sources : sources[k] = SourceDocs(k)

\* C16 witness: with a document filter given, both drivers have run
\* exec_query on every source; every returned filter has a document, and
\* neither the masked one nor the rejected one.
C16_Witness ==
    /\ docFilter = "even"
    /\ n > 1
    /\ seqRet = "returned"
    /\ parRet = "returned"
    /\ \A k \in 1..Len(outPar) :
        /\ outPar[k].matches # {}
        /\ \E d \in SourceDocs(outPar[k].source) \ outPar[k].matches :
            d \notin MaskedDocs(outPar[k].source)
        /\ MaskedDocs(outPar[k].source) \cap outPar[k].matches = {}

\* ------------------------------------------------------------------------
\* Properties of DocWordsSpace
\* ------------------------------------------------------------------------

\* Term ids a test() is asked about: the ones in use, one never stored, and
\* the largest exec_term_id_t.
TestTerms == Terms \cup {MaxTermID + 1, UINT16_MAX}

\* Position pos was set to termID in the current document and not unset since.
Live(pos, termID) == hist[pos].gen = gen /\ hist[pos].termID = termID

\* Position pos was last set in an earlier document (a reset came after).
SetBeforeReset(pos) == hist[pos].gen >= 0 /\ hist[pos].gen < gen

\* The value of curSeq during the document that follows g resets.
SeqOf(g) == (g % UINT16_MAX) + 1

Phrases == UNION {[1..len -> Terms] : len \in 1..MaxPhraseSize}

\* The first-token positions handed to test_phrase: up to MaxCands hit
\* positions of the phrase's first term, ascending.
CandSeqs ==
    {cs \in UNION {[1..len -> 1..maxPos] : len \in 0..MaxCands} :
        \A a, b \in 1..Len(cs) : a < b => cs[a] < cs[b]}

\* A phrase of len terms, for where a phrase test reads.
PhraseOfLen(len) == [k \in 1..len |-> 0]

GuardOffsets == (maxPos + 1)..(maxPos + MaxPhraseSize)

\* C1 Round trip: right after set(T, p) with 0 < p <= maxPos, test(T, p) is
\* true and test(T2, p) is false for every T2 # T, whatever calls came before.
C1_RoundTrip ==
    lastCall.op = "set" =>
        /\ test(Self, lastCall.termID, lastCall.pos)
        /\ \A t2 \in TestTerms \ {lastCall.termID} : ~test(Self, t2, lastCall.pos)

\* C1 witness: a set of term 0 in a later document, on a slot that another
\* position's stale entry sits next to.
C1_Witness ==
    /\ lastCall.op = "set"
    /\ lastCall.termID = 0
    /\ gen > 0
    /\ \E p \in 1..maxPos : p # lastCall.pos /\ SetBeforeReset(p)

\* C2 Reset clears all: a position that was set before a reset and has not
\* been set again since tests false for every term.
C2_ResetClearsAll ==
    \A p \in 1..maxPos :
        SetBeforeReset(p) => \A t \in TestTerms : ~test(Self, t, p)

\* C2 witness: right after a reset, a slot still holds what an earlier
\* document wrote into it.
C2_Witness ==
    /\ lastCall.op = "reset"
    /\ \E p \in 1..maxPos :
        /\ SetBeforeReset(p)
        /\ positions[p].docSeq # 0
        /\ positions[p].termID = hist[p].termID

\* C3 Generation wraparound: once the 16-bit counter has overflowed, a set
\* still round-trips, and a position written in an earlier document whose
\* generation value equals the current one tests false for every term.
C3_Wraparound ==
    /\ (gen >= UINT16_MAX /\ lastCall.op = "set") =>
            /\ test(Self, lastCall.termID, lastCall.pos)
            /\ \A t2 \in TestTerms \ {lastCall.termID} :
                ~test(Self, t2, lastCall.pos)
    /\ \A p \in 1..maxPos :
        (SetBeforeReset(p) /\ SeqOf(hist[p].gen) = curSeq) =>
            \A t \in TestTerms : ~test(Self, t, p)

\* C3 witness: the counter has overflowed and is back at the value under
\* which a position was written UINT16_MAX documents earlier.
C3_Witness ==
    /\ gen >= UINT16_MAX
    /\ \E p \in 1..maxPos :
        /\ SetBeforeReset(p)
        /\ SeqOf(hist[p].gen) = curSeq
        /\ gen - hist[p].gen = UINT16_MAX

\* What a step that ends in lastCall = unset(p) must leave behind.
UnsetEffect ==
    LET p == lastCall'.pos IN
    /\ \A t \in TestTerms : ~test(Self', t, p)
    /\ \A p2 \in DOMAIN positions \ {p} :
        /\ positions'[p2] = positions[p2]
        /\ \A t \in TestTerms : test(Self', t, p2) = test(Self, t, p2)
    /\ positions'[p].termID = positions[p].termID
    /\ curSeq' = curSeq

\* C4 Unset is local: after unset(p) test(T, p) is false for every T, every
\* other position tests as before, and only the docSeq of slot p was written.
C4_UnsetLocal ==
    [][lastCall'.op = "unset" => UnsetEffect]_vars

\* C4 witness: an unset of a slot holding a nonzero term id while another
\* position is live.
C4_Witness ==
    /\ lastCall.op = "unset"
    /\ positions[lastCall.pos].termID # 0
    /\ positions[lastCall.pos].docSeq = 0
    /\ \E p2 \in 1..maxPos, t \in Terms : p2 # lastCall.pos /\ test(Self, t, p2)

\* C5 Phrase match: test_phrase is true exactly when, from one of the given
\* first-token positions o, the phrase's k-th term is what the current
\* document has at o + k, for every k.
C5_PhraseMatch ==
    alive =>
        LET self == Self
            cands == CandSeqs
        IN  \A ph \in Phrases, cs \in cands :
                test_phrase(self, ph, cs) <=>
                    \E c \in 1..Len(cs) :
                        \A k \in 0..(Len(ph) - 1) : Live(cs[c] + k, ph[k + 1])

\* C5 witness: a two-term phrase is found from the first of two candidates,
\* the second candidate running into the guard slots, after an earlier document.
C5_Witness ==
    /\ alive
    /\ gen > 0
    /\ maxPos >= 2
    /\ test_phrase(Self, <<1, 0>>, <<maxPos - 1, maxPos>>)
    /\ ~test_phrase(Self, <<1, 0>>, <<maxPos>>)

\* C6 Guard region: the MaxPhraseSize slots past maxPos stay zero and test
\* false for every term, and a phrase test of at most MaxPhraseSize terms
\* from candidates <= maxPos reads only allocated offsets.
C6_GuardRegion ==
    alive =>
        /\ \A q \in GuardOffsets :
            /\ positions[q] = ZeroPosition
            /\ \A t \in TestTerms : ~test(Self, t, q)
        /\ \A len \in 1..MaxPhraseSize, cs \in CandSeqs :
            /\ phraseReads(PhraseOfLen(len), cs) \subseteq DOMAIN positions
            /\ \A o \in phraseReads(PhraseOfLen(len), cs) : o <= maxPos + MaxPhraseSize

\* C6 witness: the last real position is set after the full clear of an
\* overflowing reset.
C6_Witness ==
    /\ alive
    /\ gen >= UINT16_MAX
    /\ positions[maxPos].docSeq = curSeq

\* C7 Construction: it fails exactly for max = 0 or max > MaxPosition, and a
\* failed instance is never operated on; a new valid instance has curSeq 1
\* and maxPos + 1 + MaxPhraseSize zero slots, so nothing tests true.
C7_Construction ==
    /\ alive <=> (maxPos # 0 /\ maxPos <= MaxPosition)
    /\ ~alive => lastCall.op = "ctor"
    /\ (alive /\ lastCall.op = "ctor") =>
        /\ curSeq = 1
        /\ DOMAIN positions = 0..(maxPos + MaxPhraseSize)
        /\ \A x \in DOMAIN positions :
            /\ positions[x] = ZeroPosition
            /\ \A t \in TestTerms : ~test(Self, t, x)

\* C7 witness: a freshly constructed instance of the largest valid size.
C7_Witness ==
    /\ alive
    /\ lastCall.op = "ctor"
    /\ maxPos = MaxPosition
    /\ Cardinality(DOMAIN positions) = MaxPosition + 1 + MaxPhraseSize

\* C7 witness of the failing case: max over the limit.
C7_WitnessFailed == ~alive /\ maxPos > MaxPosition

\* C17 The current generation is never 0: curSeq stays in 1..UINT16_MAX, and
\* a single reset() takes UINT16_MAX to 1 and any other value to the next one.
C17_CurSeqNeverZero ==
    /\ [](alive => curSeq \in 1..UINT16_MAX)
    /\ [][gen' = gen + 1 =>
            curSeq' = (IF curSeq = UINT16_MAX THEN 1 ELSE curSeq + 1)]_vars

\* C17 witness: the reset that met curSeq == UINT16_MAX has just run.
C17_Witness ==
    /\ alive
    /\ lastCall.op = "reset"
    /\ gen = UINT16_MAX
    /\ curSeq = 1

\* C18 Amortized reset period: the resets numbered 65535, 2 * 65535, ...
\* since construction leave slots 0..maxPos zero and the guard slots as they
\* were; a reset with any other number changes no slot.
C18_ResetPeriod ==
    [][gen' # gen =>
        IF gen' \div UINT16_MAX # gen \div UINT16_MAX
        THEN /\ gen' % UINT16_MAX = 0
             /\ \A x \in 0..maxPos : positions'[x] = ZeroPosition
             /\ \A x \in GuardOffsets : positions'[x] = positions[x]
        ELSE positions' = positions]_vars

\* C18 witness: reset number 65535 has just run and cleared a slot that an
\* earlier document had set to a nonzero term.
C18_Witness ==
    /\ alive
    /\ lastCall.op = "reset"
    /\ gen = UINT16_MAX
    /\ \E p \in 1..maxPos :
        /\ hist[p].gen >= 0
        /\ hist[p].termID # 0
        /\ positions[p] = ZeroPosition

\* C19 No slot is ahead of the current generation: every slot's docSeq is in
\* 0..curSeq, and it equals curSeq only where set() was called since the
\* last reset() with no unset() after it.
C19_NoSlotAhead ==
    alive =>
        \A x \in DOMAIN positions :
            /\ positions[x].docSeq \in 0..curSeq
            /\ positions[x].docSeq = curSeq => hist[x].gen = gen

\* C19 witness: after a reset, one slot holds an earlier generation and
\* another the current one.
C19_Witness ==
    /\ alive
    /\ gen > 0
    /\ \E p, q \in 1..maxPos :
        /\ positions[p].docSeq > 0
        /\ positions[p].docSeq < curSeq
        /\ positions[q].docSeq = curSeq

====
